---- MODULE Spec2Model ----
(***************************************************************************)
(* dumb-chess: mailbox board, pseudo-legal move generator, move applier    *)
(* with incremental piece-square evaluation, and the node-budgeted         *)
(* iterative-deepening searcher of chess.go.                               *)
(***************************************************************************)
EXTENDS Integers, Sequences, FiniteSets, TLC

VARIABLES
  pos,     \* the current Position (side to move is always upper case)
  ply,     \* number of moves applied since the initial position
  prev,    \* the Position the last move was applied to
  last,    \* the last Move applied (the zero Move before any)
  srch     \* arguments and result of the last bound / Search call

vars == <<pos, ply, prev, last, srch>>

\* ------------------------------------------------------------------------
\* Bounds of the exploration
MaxPly == 3
MaxSearchPly == 1
MaxBoundDepth == 2

\* ------------------------------------------------------------------------
\* Squares and directions
A1 == 91
H1 == 98
A8 == 21
H8 == 28
BoardLen == 120
N == -10
E == 1
S == 10
W == -1

Cells == 0 .. (BoardLen - 1)
OnBoard == {s \in Cells : s \div 10 \in 2..9 /\ s % 10 \in 1..8}
Border == Cells \ OnBoard

abs(n) == IF n < 0 THEN -n ELSE n

\* ------------------------------------------------------------------------
\* Piece
PieceValue(p) ==
  CASE p = "P" -> 100
    [] p = "N" -> 280
    [] p = "B" -> 320
    [] p = "R" -> 479
    [] p = "Q" -> 929
    [] p = "K" -> 60000
    [] OTHER -> 0

ours(p) == PieceValue(p) > 0

PieceFlip(p) ==
  CASE p = "P" -> "p" [] p = "N" -> "n" [] p = "B" -> "b"
    [] p = "R" -> "r" [] p = "Q" -> "q" [] p = "K" -> "k"
    [] p = "p" -> "P" [] p = "n" -> "N" [] p = "b" -> "B"
    [] p = "r" -> "R" [] p = "q" -> "Q" [] p = "k" -> "K"
    [] OTHER -> p

\* Board.Flip: b[i] = a[len(a)-i-1].Flip()
BoardFlip(a) == [i \in Cells |-> PieceFlip(a[BoardLen - i - 1])]

SquareFlip(s) == 119 - s

ZeroMove == [from |-> 0, to |-> 0]

\* Position.Flip that leaves the castling pairs where they are
PosFlipKeepsPairs(p) ==
  [board |-> BoardFlip(p.board),
   score |-> -p.score,
   wc    |-> [k \in {0, 1} |-> p.wc[k]],
   bc    |-> [k \in {0, 1} |-> p.bc[k]],
   ep    |-> SquareFlip(p.ep),
   kp    |-> SquareFlip(p.kp)]

\* Position.Flip
PosFlip(p) ==
  [board |-> BoardFlip(p.board),
   score |-> -p.score,
   wc    |-> [k \in {0, 1} |-> p.bc[k]],
   bc    |-> [k \in {0, 1} |-> p.wc[k]],
   ep    |-> SquareFlip(p.ep),
   kp    |-> SquareFlip(p.kp)]

\* ------------------------------------------------------------------------
\* Piece-square tables
\* chess.go:278  piece-square table of 'P', cell s is element s + 1
pstP ==
  <<
     0, 0, 0, 0, 0, 0, 0, 0, 0, 0,
     0, 0, 0, 0, 0, 0, 0, 0, 0, 0,
     0, 0, 0, 0, 0, 0, 0, 0, 0, 0,
     0, 178, 183, 186, 173, 202, 182, 185, 190, 0,
     0, 107, 129, 121, 144, 140, 131, 144, 107, 0,
     0, 83, 116, 98, 115, 114, 0, 115, 87, 0,
     0, 74, 103, 110, 109, 106, 101, 0, 77, 0,
     0, 78, 109, 105, 89, 90, 98, 103, 81, 0,
     0, 69, 108, 93, 63, 64, 86, 103, 69, 0,
     0, 0, 0, 0, 0, 0, 0, 0, 0, 0,
     0, 0, 0, 0, 0, 0, 0, 0, 0, 0,
     0, 0, 0, 0, 0, 0, 0, 0, 0, 0
  >>

\* chess.go:279  piece-square table of 'N', cell s is element s + 1
pstN ==
  <<
     0, 0, 0, 0, 0, 0, 0, 0, 0, 0,
     0, 0, 0, 0, 0, 0, 0, 0, 0, 0,
     0, 214, 227, 205, 205, 270, 225, 222, 210, 0,
     0, 277, 274, 380, 244, 284, 342, 276, 266, 0,
     0, 290, 347, 281, 354, 353, 307, 342, 278, 0,
     0, 304, 304, 325, 317, 313, 321, 305, 297, 0,
     0, 279, 285, 311, 301, 302, 315, 282, 0, 0,
     0, 262, 290, 293, 302, 298, 295, 291, 266, 0,
     0, 257, 265, 282, 0, 282, 0, 257, 260, 0,
     0, 206, 257, 254, 256, 261, 245, 258, 211, 0,
     0, 0, 0, 0, 0, 0, 0, 0, 0, 0,
     0, 0, 0, 0, 0, 0, 0, 0, 0, 0
  >>

\* chess.go:280  piece-square table of 'B', cell s is element s + 1
pstB ==
  <<
     0, 0, 0, 0, 0, 0, 0, 0, 0, 0,
     0, 0, 0, 0, 0, 0, 0, 0, 0, 0,
     0, 261, 242, 238, 244, 297, 213, 283, 270, 0,
     0, 309, 340, 355, 278, 281, 351, 322, 298, 0,
     0, 311, 359, 288, 361, 372, 310, 348, 306, 0,
     0, 345, 337, 340, 354, 346, 345, 335, 330, 0,
     0, 333, 330, 337, 343, 337, 336, 0, 327, 0,
     0, 334, 345, 344, 335, 328, 345, 340, 335, 0,
     0, 339, 340, 331, 326, 327, 326, 340, 336, 0,
     0, 313, 322, 305, 308, 306, 305, 310, 310, 0,
     0, 0, 0, 0, 0, 0, 0, 0, 0, 0,
     0, 0, 0, 0, 0, 0, 0, 0, 0, 0
  >>

\* chess.go:281  piece-square table of 'R', cell s is element s + 1
pstR ==
  <<
     0, 0, 0, 0, 0, 0, 0, 0, 0, 0,
     0, 0, 0, 0, 0, 0, 0, 0, 0, 0,
     0, 514, 508, 512, 483, 516, 512, 535, 529, 0,
     0, 534, 508, 535, 546, 534, 541, 513, 539, 0,
     0, 498, 514, 507, 512, 524, 506, 504, 494, 0,
     0, 0, 484, 495, 492, 497, 475, 470, 473, 0,
     0, 451, 444, 463, 458, 466, 450, 433, 449, 0,
     0, 437, 451, 437, 454, 454, 444, 453, 433, 0,
     0, 426, 441, 448, 453, 450, 436, 435, 426, 0,
     0, 449, 455, 461, 484, 477, 461, 448, 447, 0,
     0, 0, 0, 0, 0, 0, 0, 0, 0, 0,
     0, 0, 0, 0, 0, 0, 0, 0, 0, 0
  >>

\* chess.go:282  piece-square table of 'Q', cell s is element s + 1
pstQ ==
  <<
     0, 0, 0, 0, 0, 0, 0, 0, 0, 0,
     0, 0, 0, 0, 0, 0, 0, 0, 0, 0,
     0, 935, 930, 921, 825, 998, 953, 1017, 955, 0,
     0, 943, 961, 989, 919, 949, 1005, 986, 953, 0,
     0, 927, 972, 961, 989, 1001, 992, 972, 931, 0,
     0, 930, 913, 951, 946, 954, 949, 916, 923, 0,
     0, 915, 914, 927, 924, 928, 919, 909, 907, 0,
     0, 899, 923, 916, 918, 913, 918, 913, 902, 0,
     0, 893, 911, 0, 910, 914, 914, 908, 891, 0,
     0, 890, 899, 898, 916, 898, 893, 895, 887, 0,
     0, 0, 0, 0, 0, 0, 0, 0, 0, 0,
     0, 0, 0, 0, 0, 0, 0, 0, 0, 0
  >>

\* chess.go:283  piece-square table of 'K', cell s is element s + 1
pstK ==
  <<
     0, 0, 0, 0, 0, 0, 0, 0, 0, 0,
     0, 0, 0, 0, 0, 0, 0, 0, 0, 0,
     0, 60004, 60054, 60047, 59901, 59901, 60060, 60083, 59938, 0,
     0, 59968, 60010, 60055, 60056, 60056, 60055, 60010, 60003, 0,
     0, 59938, 60012, 59943, 60044, 59933, 60028, 60037, 59969, 0,
     0, 59945, 60050, 60011, 59996, 59981, 60013, 0, 59951, 0,
     0, 59945, 59957, 59948, 59972, 59949, 59953, 59992, 59950, 0,
     0, 59953, 59958, 59957, 59921, 59936, 59968, 59971, 59968, 0,
     0, 59996, 60003, 59986, 59950, 59943, 59982, 60013, 60004, 0,
     0, 60017, 60030, 59997, 59986, 60006, 59999, 60040, 60018, 0,
     0, 0, 0, 0, 0, 0, 0, 0, 0, 0,
     0, 0, 0, 0, 0, 0, 0, 0, 0, 0
  >>

pst(p, s) ==
  CASE p = "P" -> pstP[s + 1]
    [] p = "N" -> pstN[s + 1]
    [] p = "B" -> pstB[s + 1]
    [] p = "R" -> pstR[s + 1]
    [] p = "Q" -> pstQ[s + 1]
    [] p = "K" -> pstK[s + 1]
    [] OTHER -> 0

\* ------------------------------------------------------------------------
\* Move generator
directions(p) ==
  CASE p = "P" -> <<N, N + N, N + W, N + E>>
    [] p = "N" -> <<N + N + E, E + N + E, E + S + E, S + S + E,
                    S + S + W, W + S + W, W + N + W, N + N + W>>
    [] p = "B" -> <<N + E, S + E, S + W, N + W>>
    [] p = "R" -> <<N, E, S, W>>
    [] p = "Q" -> <<N, E, S, W, N + E, S + E, S + W, N + W>>
    [] p = "K" -> <<N, E, S, W, N + E, S + E, S + W, N + W>>
    [] OTHER -> <<>>

\* A board read; an index outside the array is a run-time panic in Go
PanicCell == "!"
At(b, j) == IF j \in Cells THEN b[j] ELSE PanicCell

\* The move that stands for a panic of the generator
PanicMove == [from |-> -1, to |-> -1]

\* The castling moves appended after a slider from square i reached j
castling(p, i, j) ==
  (IF i = A1 /\ At(p.board, j + E) = "K" /\ p.wc[0]
     THEN <<[from |-> j + E, to |-> j + W]>> ELSE <<>>)
  \o
  (IF i = H1 /\ At(p.board, j + W) = "K" /\ p.wc[1]
     THEN <<[from |-> j + W, to |-> j + E]>> ELSE <<>>)

\* A scan that stops on own pieces only
blockedByOwnOnly(q) == q # "." /\ ours(q)

\* The scan of a direction stops on a sentinel or on an own piece
blocked(q) == q = " " \/ (q # "." /\ ours(q))

\* The inner loop "for j := i + d; ; j = j + d" from cell j on
RECURSIVE ray(_, _, _, _, _)
ray(p, i, pc, d, j) ==
  LET q == At(p.board, j) IN
  IF q = PanicCell THEN <<PanicMove>>
  ELSE IF blocked(q) THEN <<>>
  ELSE IF pc = "P" /\ (d = N \/ d = N + N) /\ q # "." THEN <<>>
  ELSE IF pc = "P" /\ d = N + N /\ (i < A1 + N \/ At(p.board, i + N) # ".")
    THEN <<>>
  ELSE IF pc = "P" /\ (d = N + W \/ d = N + E) /\ q = "."
          /\ (j # p.ep /\ j # p.kp /\ j # p.kp - 1 /\ j # p.kp + 1)
    THEN <<>>
  ELSE
    LET mv == <<[from |-> i, to |-> j]>> IN
    IF pc = "P" \/ pc = "N" \/ pc = "K" \/ (q # " " /\ q # "." /\ ~ours(q))
      THEN mv
      ELSE mv \o castling(p, i, j) \o ray(p, i, pc, d, j + d)

\* The loop over the directions of the piece on cell i, from the k-th on
RECURSIVE pieceMoves(_, _, _)
pieceMoves(p, i, k) ==
  LET ds == directions(p.board[i]) IN
  IF k > Len(ds) THEN <<>>
  ELSE ray(p, i, p.board[i], ds[k], i + ds[k]) \o pieceMoves(p, i, k + 1)

\* The loop "for index, p := range pos.board" over the cells lo .. hi, in
\* ascending order of the cells
RECURSIVE movesIn(_, _, _)
movesIn(p, lo, hi) ==
  IF lo > hi THEN <<>>
  ELSE IF lo = hi
    THEN (IF ours(p.board[lo]) THEN pieceMoves(p, lo, 1) ELSE <<>>)
  ELSE movesIn(p, lo, (lo + hi) \div 2)
       \o movesIn(p, (lo + hi) \div 2 + 1, hi)

\* Position.Moves: the moves in the order the code appends them
Moves(p) == movesIn(p, 0, BoardLen - 1)

Panics(p) == LET ms == Moves(p) IN \E k \in 1 .. Len(ms) : ms[k] = PanicMove

\* ------------------------------------------------------------------------
\* Evaluator and move applier

\* Position.value: the score delta of move m
value(p, m) ==
  LET i == m.from
      j == m.to
      pc == p.board[i]
      q == p.board[j]
      base == pst(pc, j) - pst(pc, i)
      capture == IF q # "." /\ q # " " /\ ~ours(q)
                   THEN pst(PieceFlip(q), SquareFlip(j)) ELSE 0
      kingPassant == IF abs(j - p.kp) < 2
                       THEN pst("K", SquareFlip(j)) ELSE 0
      castle == IF pc = "K" /\ abs(i - j) = 2
                  THEN pst("R", (i + j) \div 2)
                       - (IF j < i THEN pst("R", A1) ELSE pst("R", H1))
                  ELSE 0
      promote == IF pc = "P" /\ A8 <= j /\ j <= H8
                   THEN pst("Q", j) - pst("P", j) ELSE 0
      enPassant == IF pc = "P" /\ j = p.ep
                     THEN pst("P", SquareFlip(j + S)) ELSE 0
  IN base + capture + kingPassant + castle + promote + enPassant

\* The cell ahead of the en-passant target instead of the one behind it
enPassantVictimAhead(j) == j + N

\* The cell Position.Move clears when a pawn lands on the en-passant target j
enPassantVictim(j) == j + S

\* The position Position.Move builds before it flips it
applied(p, m) ==
  LET i == m.from
      j == m.to
      pc == p.board[i]
      b1 == [[p.board EXCEPT ![j] = p.board[i]] EXCEPT ![i] = "."]
      wc0 == IF i = A1 \/ pc = "K" THEN FALSE ELSE p.wc[0]
      wc1 == IF i = H1 \/ pc = "K" THEN FALSE ELSE p.wc[1]
      bc1 == IF j = A8 THEN FALSE ELSE p.bc[1]
      bc0 == IF j = H8 THEN FALSE ELSE p.bc[0]
      b2 == IF pc = "K" /\ abs(j - i) = 2
              THEN [[b1 EXCEPT ![IF j < i THEN H1 ELSE A1] = "."]
                      EXCEPT ![(i + j) \div 2] = "R"]
              ELSE b1
      b3 == IF pc = "P" /\ A8 <= j /\ j <= H8
              THEN [b2 EXCEPT ![j] = "Q"] ELSE b2
      b4 == IF pc = "P" /\ j = p.ep
              THEN [b3 EXCEPT ![enPassantVictim(j)] = "."] ELSE b3
  IN [board |-> b4,
      score |-> p.score + value(p, m),
      wc    |-> [k \in {0, 1} |-> IF k = 0 THEN wc0 ELSE wc1],
      bc    |-> [k \in {0, 1} |-> IF k = 0 THEN bc0 ELSE bc1],
      ep    |-> IF pc = "P" /\ j - i = 2 * N THEN i + N ELSE 0,
      kp    |-> 0]

\* Position.Move
Move(p, m) == PosFlip(applied(p, m))

\* The cells Position.Move assigns when it applies m
writes(p, m) ==
  LET i == m.from
      j == m.to
      pc == p.board[i]
  IN {i, j}
     \cup (IF pc = "K" /\ abs(j - i) = 2
             THEN {IF j < i THEN H1 ELSE A1, (i + j) \div 2} ELSE {})
     \cup (IF pc = "P" /\ j = p.ep THEN {enPassantVictim(j)} ELSE {})

\* ------------------------------------------------------------------------
\* Searcher
MateValue == PieceValue("K") + 10 * PieceValue("Q")
MaxDepth == 99

RECURSIVE bound(_, _, _)
RECURSIVE boundLoop(_, _, _, _, _, _, _)

\* The loop of Searcher.bound over ms from its k-th move on; ws and wm are
\* worstScore and worstMove, n the calls of bound counted so far
boundLoop(p, ms, k, depth, ws, wm, n) ==
  IF k > Len(ms) THEN [score |-> ws, move |-> wm, nodes |-> n]
  ELSE
    LET r == bound(Move(p, ms[k]), ws, depth - 1) IN
    IF r.score < ws
      THEN boundLoop(p, ms, k + 1, depth, r.score, ms[k], n + r.nodes)
      ELSE boundLoop(p, ms, k + 1, depth, ws, wm, n + r.nodes)

\* Searcher.bound; nodes is the number of times s.nodes was incremented
bound(p, gamma, depth) ==
  IF depth <= 0 THEN [score |-> p.score, move |-> ZeroMove, nodes |-> 1]
  ELSE boundLoop(p, Moves(p), 1, depth, gamma, ZeroMove, 1)

\* The loop of Searcher.Search with the budget test before the assignment
RECURSIVE searchLoopTestFirst(_, _, _, _, _)
searchLoopTestFirst(p, maxNodes, depth, n, wm) ==
  IF depth >= MaxDepth THEN [move |-> wm, nodes |-> n, depth |-> depth - 1]
  ELSE
    LET r == bound(p, 3 * MateValue, depth) IN
    IF n + r.nodes >= maxNodes
      THEN [move |-> wm, nodes |-> n + r.nodes, depth |-> depth]
      ELSE searchLoopTestFirst(p, maxNodes, depth + 1, n + r.nodes, r.move)

\* The loop of Searcher.Search from the given depth on; n is s.nodes
RECURSIVE searchLoop(_, _, _, _, _)
searchLoop(p, maxNodes, depth, n, wm) ==
  IF depth >= MaxDepth THEN [move |-> wm, nodes |-> n, depth |-> depth - 1]
  ELSE
    LET r == bound(p, 3 * MateValue, depth) IN
    IF n + r.nodes >= maxNodes
      THEN [move |-> r.move, nodes |-> n + r.nodes, depth |-> depth]
      ELSE searchLoop(p, maxNodes, depth + 1, n + r.nodes, r.move)

\* Searcher.Search
Search(p, maxNodes) == searchLoop(p, maxNodes, 1, 0, ZeroMove)

\* ------------------------------------------------------------------------
\* Positions handed to the core

\* The cell of file f (1 = a .. 8 = h) and rank r (1 .. 8)
Sq(f, r) == (10 - r) * 10 + f

\* Sum of the piece-square values of the cells lo .. hi of a board: own
\* pieces count their table value, opponent pieces minus their mirrored one
RECURSIVE rescanIn(_, _, _)
rescanIn(b, lo, hi) ==
  IF lo > hi THEN 0
  ELSE IF lo = hi
    THEN (IF b[lo] \in {".", " "} THEN 0
          ELSE IF ours(b[lo]) THEN pst(b[lo], lo)
          ELSE -pst(PieceFlip(b[lo]), SquareFlip(lo)))
  ELSE rescanIn(b, lo, (lo + hi) \div 2)
       + rescanIn(b, (lo + hi) \div 2 + 1, hi)

Rescan(b) == rescanIn(b, 0, BoardLen - 1)

\* A board with sentinels on the border and the given pieces on the 8x8 area
MkBoard(pieces) ==
  [i \in Cells |->
     IF i \in Border THEN " "
     ELSE IF \E x \in pieces : x[1] = i
       THEN (CHOOSE x \in pieces : x[1] = i)[2]
       ELSE "."]

MkPos(pieces, w0, w1, b0, b1) ==
  [board |-> MkBoard(pieces),
   score |-> Rescan(MkBoard(pieces)),
   wc    |-> [k \in {0, 1} |-> IF k = 0 THEN w0 ELSE w1],
   bc    |-> [k \in {0, 1} |-> IF k = 0 THEN b0 ELSE b1],
   ep    |-> 0,
   kp    |-> 0]

\* White may castle on both wings; the rook files are closed by pawns
StartCastle ==
  MkPos({<<Sq(5, 1), "K">>, <<Sq(1, 1), "R">>, <<Sq(8, 1), "R">>,
         <<Sq(1, 2), "P">>, <<Sq(8, 2), "P">>,
         <<Sq(1, 3), "p">>, <<Sq(8, 3), "p">>, <<Sq(5, 8), "k">>},
        TRUE, TRUE, FALSE, FALSE)

\* Black may castle on both wings; a white knight attacks the rook on a8
StartRights ==
  MkPos({<<Sq(2, 6), "N">>, <<Sq(8, 6), "P">>,
         <<Sq(5, 8), "k">>, <<Sq(1, 8), "r">>, <<Sq(8, 8), "r">>,
         <<Sq(1, 7), "p">>, <<Sq(8, 7), "p">>},
        FALSE, FALSE, TRUE, TRUE)

\* A pawn on its home rank between two enemy pawns on the fourth rank, an
\* enemy pawn on its home rank beside a pawn on the fifth rank, and a pawn
\* one step from promotion beside an enemy rook
StartPawns ==
  MkPos({<<Sq(5, 2), "P">>, <<Sq(4, 4), "p">>, <<Sq(6, 4), "p">>,
         <<Sq(7, 5), "P">>, <<Sq(8, 7), "p">>,
         <<Sq(2, 7), "P">>, <<Sq(1, 8), "r">>},
        FALSE, FALSE, FALSE, FALSE)

Starts == {StartCastle, StartRights, StartPawns}

\* The opponent has no reply to any move of the king
SearchLocked ==
  MkPos({<<Sq(8, 1), "K">>, <<Sq(1, 6), "P">>, <<Sq(1, 7), "p">>},
        FALSE, FALSE, FALSE, FALSE)

\* Kings and one pawn each
SearchSmall ==
  MkPos({<<Sq(1, 1), "K">>, <<Sq(4, 4), "P">>,
         <<Sq(8, 8), "k">>, <<Sq(5, 6), "p">>},
        FALSE, FALSE, FALSE, FALSE)

\* The side to move has no piece
SearchEmpty ==
  MkPos({<<Sq(8, 8), "k">>}, FALSE, FALSE, FALSE, FALSE)

SearchStarts == {SearchLocked, SearchSmall, SearchEmpty}

Budgets == {1, 6, 20, 100}
Gammas == {3 * MateValue, 0}

NoSearch ==
  [op |-> "none", gamma |-> 0, depth |-> 0, maxNodes |-> 0,
   score |-> 0, move |-> ZeroMove, nodes |-> 0]

\* ------------------------------------------------------------------------
\* State machine

Init ==
  /\ pos \in Starts
  /\ ply = 0
  /\ prev = pos
  /\ last = ZeroMove
  /\ srch = NoSearch

InitSearch ==
  /\ pos \in SearchStarts
  /\ ply = 0
  /\ prev = pos
  /\ last = ZeroMove
  /\ srch = NoSearch

\* np = pos.Move(m) for a move m of pos.Moves()
PlayUpTo(limit) ==
  /\ ply < limit
  /\ LET ms == Moves(pos) IN
       /\ \A k \in 1 .. Len(ms) : ms[k] # PanicMove
       /\ \E k \in 1 .. Len(ms) :
            /\ pos' = Move(pos, ms[k])
            /\ last' = ms[k]
  /\ prev' = pos
  /\ ply' = ply + 1
  /\ srch' = NoSearch

Play == PlayUpTo(MaxPly)

PlaySearch == PlayUpTo(MaxSearchPly)

\* s.bound(pos, gamma, depth), called once on a position that was reached
DoBound ==
  /\ srch.op = "none"
  /\ \E g \in Gammas, d \in 0 .. MaxBoundDepth :
       LET r == bound(pos, g, d) IN
       srch' = [op |-> "bound", gamma |-> g, depth |-> d, maxNodes |-> 0,
                score |-> r.score, move |-> r.move, nodes |-> r.nodes]
  /\ UNCHANGED <<pos, ply, prev, last>>

\* s.Search(pos, maxNodes), called once on a position that was reached
DoSearch ==
  /\ srch.op = "none"
  /\ \E mx \in Budgets :
       LET r == Search(pos, mx) IN
       srch' = [op |-> "Search", gamma |-> 0, depth |-> r.depth,
                maxNodes |-> mx, score |-> 0, move |-> r.move,
                nodes |-> r.nodes]
  /\ UNCHANGED <<pos, ply, prev, last>>

Next == Play

Spec == Init /\ [][Next]_vars

NextSearch == PlaySearch \/ DoBound \/ DoSearch

SpecSearch == InitSearch /\ [][NextSearch]_vars

\* ------------------------------------------------------------------------
\* The move that led to the current position
Moved == ply > 0
LastPiece == prev.board[last.from]
LastWasCastling == Moved /\ LastPiece = "K" /\ abs(last.to - last.from) = 2
LastWasDoubleStep == Moved /\ LastPiece = "P" /\ last.to - last.from = 2 * N
IsMove(p, m) == LET ms == Moves(p) IN \E k \in 1 .. Len(ms) : ms[k] = m

\* C1: after a castling move the corner on the side the king moved toward
\* (A1 going west, H1 going east) is empty, the cell midway between the
\* king's origin and destination holds an own rook, and the other corner is
\* as it was.  Cells are those of the mover; the returned position is flipped.
C1_CastlingRelocatesRook ==
  LastWasCastling =>
    LET corner == IF last.to < last.from THEN A1 ELSE H1
        other == IF last.to < last.from THEN H1 ELSE A1
        mid == (last.from + last.to) \div 2
    IN /\ pos.board[SquareFlip(corner)] = "."
       /\ pos.board[SquareFlip(mid)] = PieceFlip("R")
       /\ pos.board[SquareFlip(other)] = PieceFlip(prev.board[other])

\* C3: if the score of a position equals the rescan of its board, the score
\* of the position Move returns equals the rescan of the returned board.
C3_ScoreEqualsRescan ==
  (Moved /\ prev.score = Rescan(prev.board)) => pos.score = Rescan(pos.board)

\* The castling right of a real side on wing k: the side to move owns wc
Right(p, n, side, k) ==
  IF (n % 2 = 0) = (side = "white") THEN p.wc[k] ELSE p.bc[k]

\* C4: a castling right of a side that is false stays false in the next
\* position, for each side and wing.
C4_RightsOnlyRevoked ==
  [][\A side \in {"white", "black"}, k \in {0, 1} :
       ~Right(pos, ply, side, k) => ~Right(pos', ply', side, k)]_vars

C4_Witness ==
  /\ ply >= 2
  /\ \E side \in {"white", "black"}, k \in {0, 1}, k2 \in {0, 1} :
       /\ ~Right(prev, ply - 1, side, k)
       /\ ~Right(pos, ply, side, k)
       /\ Right(pos, ply, side, k2)

\* C5: the en-passant target of the returned position is 0 unless the move
\* was a pawn double-step, and then it is the cell the pawn passed over, in
\* the orientation of the returned position.
C5_EpClearedUnlessDoubleStep ==
  Moved =>
    IF LastWasDoubleStep
      THEN pos.ep = SquareFlip(last.from + N)
      ELSE pos.ep = 0

\* C6: after a castling move the king-passant target of the returned
\* position is the cell midway between the king's origin and destination,
\* in the orientation of the returned position.
C6_KpIsCastlingMidpoint ==
  LastWasCastling => pos.kp = SquareFlip((last.from + last.to) \div 2)

\* C8: after a pawn double-step that lands beside an enemy pawn, the moves
\* of the returned position contain that pawn's diagonal step onto the
\* en-passant target, and applying it leaves the capturing pawn on the
\* target and the cell of the double-stepped pawn empty.
C8_EnPassantAcrossPlies ==
  \A side \in {W, E} :
    (LastWasDoubleStep /\ prev.board[last.to + side] = "p") =>
      LET cap == [from |-> SquareFlip(last.to + side), to |-> pos.ep]
          np == Move(pos, cap)
      IN /\ pos.ep = SquareFlip(last.from + N)
         /\ pos.board[cap.from] = "P"
         /\ IsMove(pos, cap)
         /\ np.board[last.from + N] = "p"
         /\ np.board[last.to] = "."

C8_Witness ==
  /\ ply >= 2
  /\ LastPiece = "P"
  /\ last.to = prev.ep
  /\ prev.board[last.to] = "."
  /\ prev.board[last.to + S] = "p"
  /\ pos.board[SquareFlip(last.to)] = "p"
  /\ pos.board[SquareFlip(last.to + S)] = "."

\* C9: every border cell holds the sentinel and no cell of the 8x8 area
\* does; the generator reads no cell outside the array, and every generated
\* move starts and ends on the 8x8 area and makes Move assign 8x8 cells only.
C9_SentinelsIntact ==
  /\ \A i \in Border : pos.board[i] = " "
  /\ \A i \in OnBoard : pos.board[i] # " "
  /\ LET ms == Moves(pos) IN
       \A k \in 1 .. Len(ms) :
         /\ ms[k] # PanicMove
         /\ ms[k].from \in OnBoard
         /\ ms[k].to \in OnBoard
         /\ writes(pos, ms[k]) \subseteq OnBoard

C9_Witness ==
  /\ LastWasCastling
  /\ \A i \in Border : pos.board[i] = " "
  /\ LET ms == Moves(pos) IN \E k \in 1 .. Len(ms) : pos.board[ms[k].to] = "r"

\* ------------------------------------------------------------------------
\* The searcher
SetMin(xs) == CHOOSE x \in xs : \A y \in xs : x <= y

\* The bound window Search passes at every depth
Window == 3 * MateValue

\* s.nodes after Search ran the depths 1 .. d on p
RECURSIVE cumNodes(_, _)
cumNodes(p, d) ==
  IF d <= 0 THEN 0 ELSE cumNodes(p, d - 1) + bound(p, Window, d).nodes

\* C2: for depth >= 1 bound scores every generated move by the negation of
\* the score the recursive bound returns for the successor at depth - 1, and
\* returns the minimum of targetBound and these negated scores, with a move
\* that attains it.
C2_BoundIsNegamaxStep ==
  (srch.op = "bound" /\ srch.depth >= 1) =>
    LET ms == Moves(pos)
        neg(m) == -bound(Move(pos, m), srch.gamma, srch.depth - 1).score
    IN /\ srch.score
            = SetMin({srch.gamma} \cup {neg(ms[k]) : k \in 1 .. Len(ms)})
       /\ srch.score < srch.gamma =>
            /\ IsMove(pos, srch.move)
            /\ neg(srch.move) = srch.score

\* C7: Search returns the move of the latest depth that finished while the
\* node counter was below maxNodes; the move of a depth that finished with
\* the counter at or above maxNodes does not replace the kept move.
C7_KeepsLastDepthWithinBudget ==
  srch.op = "Search" =>
    LET kept == IF srch.nodes < srch.maxNodes \/ srch.depth = 1
                  THEN srch.depth ELSE srch.depth - 1
    IN srch.move = bound(pos, Window, kept).move

\* C7 as amended: Search returns the move of the last depth it ran, the
\* first depth at whose end the node counter, accumulated over the depths,
\* has reached maxNodes (or depth 98); that depth's move replaces the kept
\* one although it finished at or above the budget.
C7_ReturnsLastDepthRun ==
  srch.op = "Search" =>
    /\ srch.depth \in 1 .. (MaxDepth - 1)
    /\ srch.nodes = cumNodes(pos, srch.depth)
    /\ srch.nodes >= srch.maxNodes \/ srch.depth = MaxDepth - 1
    /\ srch.depth > 1 => cumNodes(pos, srch.depth - 1) < srch.maxNodes
    /\ srch.move = bound(pos, Window, srch.depth).move

C7_Witness ==
  /\ srch.op = "Search"
  /\ srch.depth >= 2
  /\ srch.nodes >= srch.maxNodes
  /\ srch.move # bound(pos, Window, srch.depth - 1).move

\* C10: when the position has a move, Search returns one of its moves.
C10_SearchReturnsGeneratedMove ==
  (srch.op = "Search" /\ Len(Moves(pos)) > 0) => IsMove(pos, srch.move)
====
